---- MODULE Spec2Model ----
(***************************************************************************)
(* Step workflow of the hackathon backend: src/src/projects/services.py    *)
(* (StepService), src/src/projects/repositories.py (StepRepo),             *)
(* src/src/projects/models.py, src/src/permissions.py and                  *)
(* src/src/utils.py (FileService).                                         *)
(*                                                                         *)
(* The database holds the committed rows (steps, attempts, step files,     *)
(* comments, the project row); the file storage holds the paths written by *)
(* FileService.  Every request works in its own session                    *)
(* (database.py get_db_session): whatever it flushed and did not commit is *)
(* rolled back when the request ends with an exception.  File writes and   *)
(* deletions are not part of that transaction.                             *)
(***************************************************************************)
EXTENDS Integers, Sequences, FiniteSets, TLC

(* ------------------------------- bounds -------------------------------- *)
\* steps per project (the code creates 15, repositories.py:75)
NumSteps == 2
\* the clock runs from 0 to MaxMinutes minutes
MaxMinutes == 2
\* attempt rows the model lets the project accumulate
MaxAttempts == 2
\* step-file rows and comment rows ever created
MaxFileRows == 2
MaxComments == 1

(* ------------------------- program constants --------------------------- *)
SecondsPerMinute == 60
DefaultTimerMinutes == 30
SubmitFileLimit == 10
CommentFileLimit == 5

NOT_STARTED == "Not started"
IN_PROGRESS == "In progress"
SUBMITTED == "Submitted for review"
ACCEPTED == "Accepted"
TIME_EXCEEDED == "Time exceeded"
ProjectStatus == {NOT_STARTED, IN_PROGRESS, SUBMITTED, ACCEPTED, TIME_EXCEEDED}

\* Python None, for timestamps, timers and team ids
None == -1
NoText == "None"

(* ------------------------------ inputs --------------------------------- *)
Steps == 1..NumSteps
\* project 1 exists, project 2 does not
ProjectIds == {1}
RequestedProjectIds == {1, 2}
\* StepModify.timer is gt=0 (schemas.py:189), StepModify.score is 1..10
TimerValues == {1}
ClockTimerValues == {1, 3}
MaxScore == 10
ScoreValues == {1, MaxScore}
Texts == {"answer"}
\* seconds a submit request takes between its two reads of the clock
HalfMinute == SecondsPerMinute \div 2
ElapsedValues == {0, HalfMinute, SecondsPerMinute}
\* files a request may carry: fault says what upload_file finds wrong with it
FileA == [name |-> "a", fault |-> "none"]
FileB == [name |-> "b", fault |-> "none"]
BadFileB == [name |-> "b", fault |-> "mime"]
\* the files of a submit request: none, one, two, the same name twice, a file
\* that is refused after one was written, a file that is refused first
FileLists == {<<>>, <<FileA>>, <<FileA, FileB>>, <<FileA, FileA>>,
              <<FileA, BadFileB>>, <<BadFileB>>}
CommentFileLists == {<<>>, <<FileA>>, <<FileA, BadFileB>>, <<BadFileB>>}
FileIds == 1..MaxFileRows
\* the remove_file_ids of a submit request: none, one id, every id
RemoveFileIds == {{}, FileIds} \cup {{i} : i \in FileIds}
SubmitFaults == {"none", "update_step", "create_step_files", "commit"}
CommentFaults == {"none", "create_comment", "create_comment_files"}

\* the team of project 1 (when it has one) is team 1; team 2 is another team
TeamIds == {1, 2}
\* users of the comment operations: a mentor, a member of team 1, a member
\* of team 2
Mentor == [id |-> 1, is_mentor |-> TRUE, team_id |-> None]
Captain1 == [id |-> 2, is_mentor |-> FALSE, team_id |-> 1]
Captain2 == [id |-> 3, is_mentor |-> FALSE, team_id |-> 2]
Users == {Mentor, Captain1, Captain2}

VARIABLES
    now,        \* the wall clock, in seconds
    project,    \* the row of project 1: team, new_submission, score
    steps,      \* step number -> row of the step
    attempts,   \* step number -> its attempt rows, in insertion order
    stepFiles,  \* the step_files rows
    comments,   \* the step_comments rows, each with its file rows
    storage,    \* the paths that exist in the file storage
    nextId,     \* next primary keys of step_files and step_comments
    inflight,   \* requests that have read and not yet committed
    last        \* the last request that was answered, and its answer

vars == <<now, project, steps, attempts, stepFiles, comments, storage, nextId, inflight, last>>
dbVars == <<project, steps, attempts, stepFiles, comments, nextId>>

Workers == {1, 2}
Idle == [op |-> "idle"]

\* the answer to a request: the operation, the step number asked for, the
\* outcome (OK or the kind of the exception) and the number of files the
\* request wrote to the storage while it ran
Response(op, n, res, written) ==
    [op |-> op, step |-> n, res |-> res, written |-> written]

Max(a, b) == IF a >= b THEN a ELSE b

StepPath(n, name) == <<"steps", n, name>>
CommentPath(n, name) == <<"steps", n, "comments", name>>

(* ------------------------------- Init ---------------------------------- *)
Init ==
    /\ now = 0
    /\ project \in {[team |-> t, new_submission |-> FALSE, score |-> 0] : t \in {None, 1}}
    /\ steps = [n \in Steps |->
                  [status |-> NOT_STARTED, timer_minutes |-> DefaultTimerMinutes,
                   score |-> 0, text |-> NoText]]
    /\ attempts = [n \in Steps |-> <<>>]
    /\ stepFiles = {}
    /\ comments = {}
    /\ storage = {}
    /\ nextId = [file |-> 1, comment |-> 1]
    /\ inflight = [w \in Workers |-> Idle]
    /\ last = Response("none", 1, "OK", 0)

(* ------------------------------ StepRepo ------------------------------- *)
\* get_step: the step row of an existing project
StepExists(pid, n) == pid \in ProjectIds /\ n \in Steps

OpenAttemptIndexes(n) ==
    {i \in 1..Len(attempts[n]) : attempts[n][i].submitted_at = None}

SubmittedAttemptIndexes(n) ==
    {i \in 1..Len(attempts[n]) : attempts[n][i].submitted_at # None}

\* get_last_submitted_attempt: the submitted attempt with the latest
\* submitted_at (the latest row among equals), 0 when there is none
GetLastSubmittedAttempt(n) ==
    IF SubmittedAttemptIndexes(n) = {} THEN 0
    ELSE CHOOSE i \in SubmittedAttemptIndexes(n) :
           \A j \in SubmittedAttemptIndexes(n) :
              \/ attempts[n][j].submitted_at < attempts[n][i].submitted_at
              \/ (attempts[n][j].submitted_at = attempts[n][i].submitted_at /\ j <= i)

\* set_new_submission that leaves the flag as it is
KeepNewSubmission(project_row, new_submission) == project_row

\* set_new_submission
SetNewSubmission(project_row, new_submission) ==
    [project_row EXCEPT !.new_submission = new_submission]

(* ---------------------------- StepService ------------------------------ *)
\* a check that only asks for the previous step to have been started
ValidatePreviousStepStarted(pid, n) ==
    IF n <= 1 THEN "OK"
    ELSE IF ~StepExists(pid, n - 1) THEN "NotFound"
    ELSE IF steps[n - 1].status = NOT_STARTED THEN "Conflict"
    ELSE "OK"

\* a check that takes a previous step waiting for its review as finished
ValidatePreviousStepSubmitted(pid, n) ==
    IF n <= 1 THEN "OK"
    ELSE IF ~StepExists(pid, n - 1) THEN "NotFound"
    ELSE IF steps[n - 1].status \notin {SUBMITTED, TIME_EXCEEDED, ACCEPTED} THEN "Conflict"
    ELSE "OK"

\* _validate_previous_step_completed
ValidatePreviousStepCompleted(pid, n) ==
    IF n <= 1 THEN "OK"
    ELSE IF ~StepExists(pid, n - 1) THEN "NotFound"
    ELSE IF steps[n - 1].status # ACCEPTED THEN "Conflict"
    ELSE "OK"

\* start_step without the check of the step's own status
StartStepCheckNoStatus(pid, n, user_team_id) ==
    IF ValidatePreviousStepCompleted(pid, n) # "OK"
    THEN ValidatePreviousStepCompleted(pid, n)
    ELSE IF ~StepExists(pid, n) THEN "NotFound"
    ELSE IF project.team = None THEN "NotFound"
    ELSE IF user_team_id # project.team THEN "Forbidden"
    ELSE "OK"

\* start_step with the check of the step's status before the check of the team
StartStepCheckStatusFirst(pid, n, user_team_id) ==
    IF ValidatePreviousStepCompleted(pid, n) # "OK"
    THEN ValidatePreviousStepCompleted(pid, n)
    ELSE IF ~StepExists(pid, n) THEN "NotFound"
    ELSE IF project.team = None THEN "NotFound"
    ELSE IF steps[n].status # NOT_STARTED THEN "Conflict"
    ELSE IF user_team_id # project.team THEN "Forbidden"
    ELSE "OK"

\* start_step, lines 366-383: the checks made on what the request reads
StartStepCheck(pid, n, user_team_id) ==
    IF ValidatePreviousStepCompleted(pid, n) # "OK"
    THEN ValidatePreviousStepCompleted(pid, n)
    ELSE IF ~StepExists(pid, n) THEN "NotFound"
    ELSE IF project.team = None THEN "NotFound"
    ELSE IF user_team_id # project.team THEN "Forbidden"
    ELSE IF steps[n].status # NOT_STARTED THEN "Conflict"
    ELSE "OK"

\* a start that writes over the attempt rows of the step
ReplaceStepAttempt(n, started_at, end_time_at) ==
    [attempts EXCEPT ![n] = <<[started_at |-> started_at,
                               end_time_at |-> end_time_at,
                               submitted_at |-> None]>>]

\* create_step_attempt: a new row with no submitted_at
CreateStepAttempt(n, started_at, end_time_at) ==
    [attempts EXCEPT ![n] = Append(@, [started_at |-> started_at,
                                       end_time_at |-> end_time_at,
                                       submitted_at |-> None])]

\* a status update that reaches no row
SetNoStepStatus(n, status) == steps

\* set_step_status: UPDATE steps SET status = ... for that step number
SetStepStatus(n, status) == [steps EXCEPT ![n].status = status]

\* start_step, lines 385-402: the attempt row and the status, committed together;
\* timer_minutes is the value the request read
StartStepWrite(n, timer_minutes) ==
    /\ attempts' = CreateStepAttempt(n, now, now + SecondsPerMinute * timer_minutes)
    /\ steps' = SetStepStatus(n, IN_PROGRESS)

RECURSIVE SumLen(_)
SumLen(n) == IF n = 0 THEN 0 ELSE Len(attempts[n]) + SumLen(n - 1)
AttemptRows == SumLen(NumSteps)

\* start_step, as one request that runs alone; user_team_id is the team id
\* ensure_team_captain returned for the caller
StartStep(pid, n, user_team_id) ==
    /\ LET res == StartStepCheck(pid, n, user_team_id)
       IN  /\ res = "OK" => AttemptRows < MaxAttempts
           /\ IF res = "OK"
              THEN StartStepWrite(n, steps[n].timer_minutes)
              ELSE UNCHANGED <<steps, attempts>>
           /\ last' = Response("start", n, res, 0)
    /\ UNCHANGED <<now, project, stepFiles, comments, storage, nextId, inflight>>

\* get_open_attempt: the attempts of the step with submitted_at IS NULL; the
\* query returns one of them, or nothing when the set is empty
GetOpenAttempt(n) == OpenAttemptIndexes(n)

\* a deadline measured from the time of the call
UpdateStepAttemptEndTimeFromNow(att, n, i, new_timer_minutes) ==
    [att EXCEPT ![n][i].end_time_at = now + SecondsPerMinute * new_timer_minutes]

\* update_step_attempt_end_time_at
UpdateStepAttemptEndTimeAt(att, n, i, new_timer_minutes) ==
    [att EXCEPT ![n][i].end_time_at =
        att[n][i].started_at + SecondsPerMinute * new_timer_minutes]

\* set_step_timer that leaves the open attempt's deadline as it is
SetStepTimerWriteStepOnly(n, timer, status_read) ==
    /\ steps' = [steps EXCEPT ![n].timer_minutes = timer]
    /\ UNCHANGED attempts

\* set_step_timer that marks the step when the new deadline is already past
SetStepTimerWriteExpiring(n, timer, status_read) ==
    IF status_read # IN_PROGRESS
    THEN /\ steps' = [steps EXCEPT ![n].timer_minutes = timer]
         /\ UNCHANGED attempts
    ELSE IF steps[n].status # IN_PROGRESS \/ GetOpenAttempt(n) = {}
    THEN UNCHANGED <<steps, attempts>>
    ELSE \E i \in GetOpenAttempt(n) :
            /\ steps' = [steps EXCEPT
                           ![n].timer_minutes = timer,
                           ![n].status =
                              IF now > attempts[n][i].started_at + SecondsPerMinute * timer
                              THEN TIME_EXCEEDED ELSE @]
            /\ attempts' = UpdateStepAttemptEndTimeAt(attempts, n, i, timer)

\* set_step_timer: what the request leaves committed.  update_step commits
\* only when the status it read is not IN_PROGRESS; in IN_PROGRESS the commit
\* comes with update_step_attempt_end_time_at.  update_step ends with a
\* refresh of the step (repositories.py:232), so line 428 tests the status
\* that is committed by then; when that is no longer IN_PROGRESS, or no open
\* attempt is found (line 431), the request ends without a commit.
SetStepTimerWrite(n, timer, status_read) ==
    IF status_read # IN_PROGRESS
    THEN /\ steps' = [steps EXCEPT ![n].timer_minutes = timer]
         /\ UNCHANGED attempts
    ELSE IF steps[n].status # IN_PROGRESS \/ GetOpenAttempt(n) = {}
    THEN UNCHANGED <<steps, attempts>>
    ELSE \E i \in GetOpenAttempt(n) :
            /\ steps' = [steps EXCEPT ![n].timer_minutes = timer]
            /\ attempts' = UpdateStepAttemptEndTimeAt(attempts, n, i, timer)

\* set_step_timer (the router lets only mentors call it)
SetStepTimer(pid, n, timer) ==
    /\ LET res == IF ~StepExists(pid, n) THEN "NotFound"
                  ELSE "OK"
       IN  /\ IF res = "OK"
              THEN SetStepTimerWrite(n, timer, steps[n].status)
              ELSE UNCHANGED <<steps, attempts>>
           /\ last' = Response("set_timer", n, res, 0)
    /\ UNCHANGED <<now, project, stepFiles, comments, storage, nextId, inflight>>

\* _is_step_time_exceeded: a fresh read of the clock against end_time_at
IsStepTimeExceeded(clock, attempt) == clock > attempt.end_time_at

(* ----------------------------- FileService ----------------------------- *)
Range(seq) == {seq[i] : i \in 1..Len(seq)}

\* upload_file: the MIME type, the size and the free path are checked before
\* anything is written
UploadFile(file, path, store) ==
    IF file.fault = "mime" THEN "UnsupportedMediaType"
    ELSE IF file.fault = "size" THEN "TooLarge"
    ELSE IF path \in store THEN "Conflict"
    ELSE "OK"

UploadPath(n, comment, name) ==
    IF comment THEN CommentPath(n, name) ELSE StepPath(n, name)

\* _upload_files, lines 275-288: the loop; a failing upload deletes what the
\* loop has written so far.  written counts the files the loop wrote.
RECURSIVE UploadLoop(_, _, _, _, _)
UploadLoop(files, n, comment, store, written) ==
    IF files = <<>>
    THEN [res |-> "OK", store |-> store, written |-> written]
    ELSE LET path == UploadPath(n, comment, Head(files).name)
             result == UploadFile(Head(files), path, store)
         IN  IF result = "OK"
             THEN UploadLoop(Tail(files), n, comment, store \cup {path}, Append(written, path))
             ELSE [res |-> result, store |-> store \ Range(written), written |-> written]

\* _upload_files
UploadFiles(files, n, file_limit, comment, store) ==
    IF Len(files) > file_limit
    THEN [res |-> "BadRequest", store |-> store, written |-> <<>>]
    ELSE UploadLoop(files, n, comment, store, <<>>)

\* except blocks that re-raise without deleting anything
DeleteNothing(store, written) == store

\* the except blocks of submit_step (516-518) and create_comment (669-671):
\* delete_file_from_fs for every file the request wrote
DeleteWritten(store, written) == store \ Range(written)

\* delete_step_files_by_ids: the rows of the step with these ids go
DeleteStepFilesByIds(rows, n, file_ids) ==
    {f \in rows : ~(f.step = n /\ f.id \in file_ids)}

\* create_step_files: one row per uploaded file, ids in upload order
CreateStepFiles(rows, n, written, first_id) ==
    rows \cup {[id |-> first_id + i - 1, step |-> n, path |-> written[i]] :
                 i \in 1..Len(written)}

\* submit_step, lines 479-488: the ids to remove that are not files of the step
InvalidIds(n, remove_file_ids) ==
    {fid \in remove_file_ids : ~\E f \in stepFiles : f.step = n /\ f.id = fid}

\* _remove_step_files_from_fs
RemoveStepFilesFromFs(store, n, remove_file_ids) ==
    store \ {f.path : f \in {g \in stepFiles : g.step = n /\ g.id \in remove_file_ids}}

\* submit_step, lines 454-488: the checks before the try block.  A project
\* without a team has no team.id to compare with (line 463).
SubmitStepCheck(pid, n, user_team_id, remove_file_ids) ==
    IF ~StepExists(pid, n) THEN "NotFound"
    ELSE IF project.team = None THEN "AttributeError"
    ELSE IF user_team_id # project.team THEN "Forbidden"
    ELSE IF steps[n].status # IN_PROGRESS THEN "Conflict"
    ELSE IF GetOpenAttempt(n) = {} THEN "Conflict"
    ELSE IF InvalidIds(n, remove_file_ids) # {} THEN "BadRequest"
    ELSE "OK"

\* submit_step, line 492: the status from the clock read inside the try block
SubmitStatus(clock, attempt) ==
    IF IsStepTimeExceeded(clock, attempt) THEN TIME_EXCEEDED ELSE SUBMITTED

\* submit_step, lines 490-519: how the try block ends.  fault names the
\* database call that raises, "none" when the database works.  When the
\* exception comes before line 506 has assigned files_to_create, the except
\* block's own read of files_to_create raises UnboundLocalError.
SubmitTryResult(up, fault) ==
    IF fault = "update_step" THEN "UnboundLocalError"
    ELSE IF up.res # "OK" THEN "UnboundLocalError"
    ELSE IF fault = "create_step_files" /\ up.written # <<>> THEN "DBError"
    ELSE IF fault = "commit" THEN "DBError"
    ELSE "OK"

\* submit_step: the storage after the try block and its except block
SubmitStorage(n, remove_file_ids, up, fault) ==
    IF fault = "update_step" THEN storage
    ELSE IF up.res # "OK" THEN up.store
    ELSE IF SubmitTryResult(up, fault) # "OK" THEN DeleteWritten(up.store, up.written)
    ELSE up.store

\* a request whose first database call commits on its own
CommittedEarly(res) == res \in {"OK", "DBError"}

\* submit_step, lines 496-514: every database call before the last one has
\* commit=False, so what the request flushed stays in the database only when
\* the request got through its last call; the session of a request that
\* raised is closed without a commit (database.py get_db_session)
Committed(res) == res = "OK"

\* submit_step as one request that runs alone.  now is read at line 452;
\* elapsed seconds later the try block reads the clock again (line 491 via
\* _is_step_time_exceeded).
SubmitStep(pid, n, user_team_id, text, add_files, remove_file_ids, elapsed, fault) ==
    LET chk == SubmitStepCheck(pid, n, user_team_id, remove_file_ids)
        removed == IF remove_file_ids = {} THEN storage
                   ELSE RemoveStepFilesFromFs(storage, n, remove_file_ids)
        up == UploadFiles(add_files, n, SubmitFileLimit, FALSE, removed)
        res == IF chk # "OK" THEN chk ELSE SubmitTryResult(up, fault)
    IN  /\ chk # "OK" => elapsed = 0 /\ fault = "none"
        /\ now + elapsed <= MaxMinutes * SecondsPerMinute
        /\ res = "OK" => nextId.file + Len(up.written) - 1 <= MaxFileRows
        /\ now' = now + elapsed
        /\ IF chk # "OK"
           THEN UNCHANGED <<dbVars, storage>>
           ELSE /\ storage' = SubmitStorage(n, remove_file_ids, up, fault)
                /\ IF ~Committed(res)
                   THEN UNCHANGED dbVars
                   ELSE \E i \in GetOpenAttempt(n) :
                        /\ attempts' = [attempts EXCEPT ![n][i].submitted_at = now]
                        /\ steps' = [steps EXCEPT
                                       ![n].text = text,
                                       ![n].status = SubmitStatus(now + elapsed, attempts[n][i])]
                        /\ stepFiles' = CreateStepFiles(
                                           DeleteStepFilesByIds(stepFiles, n, remove_file_ids),
                                           n, up.written, nextId.file)
                        /\ nextId' = [nextId EXCEPT !.file = @ + Len(up.written)]
                        /\ project' = SetNewSubmission(project, TRUE)
                        /\ UNCHANGED comments
        /\ last' = Response("submit", n, res,
                            IF chk = "OK" /\ fault # "update_step" THEN Len(up.written) ELSE 0)
        /\ UNCHANGED inflight

\* a review check that only refuses steps without a submission so far
ReviewCheckNotBeforeSubmit(status) ==
    IF status \in {NOT_STARTED, IN_PROGRESS} THEN "Conflict" ELSE "OK"

\* a review check that only refuses steps that were never started
ReviewCheckAnyStarted(status) ==
    IF status = NOT_STARTED THEN "Conflict" ELSE "OK"

\* a review check that refuses a step whose time was exceeded
ReviewCheckSubmittedOnly(status) ==
    IF status # SUBMITTED THEN "Conflict" ELSE "OK"

\* accept_step, lines 534-538, and reject_step, lines 574-578
ReviewCheck(status) ==
    IF status \notin {SUBMITTED, TIME_EXCEEDED} THEN "Conflict" ELSE "OK"

\* accept_step (the router lets only mentors call it)
AcceptStep(pid, n, score) ==
    /\ LET res == IF ~StepExists(pid, n) THEN "NotFound"
                  ELSE ReviewCheck(steps[n].status)
       IN  /\ IF res = "OK"
              THEN /\ steps' = [steps EXCEPT ![n].score = score, ![n].status = ACCEPTED]
                   /\ project' = SetNewSubmission(project, FALSE)
              ELSE UNCHANGED <<steps, project>>
           /\ last' = Response("accept", n, res, 0)
    /\ UNCHANGED <<now, attempts, stepFiles, comments, storage, nextId, inflight>>

\* Python's round(num / den) for integers num and den > 0: to the nearest
\* integer, a tie going to the even neighbour
PyRound(num, den) ==
    LET q == num \div den
        r == num % den
    IN  IF 2 * r < den THEN q
        ELSE IF 2 * r > den THEN q + 1
        ELSE IF q % 2 = 0 THEN q ELSE q + 1

\* reject_step, lines 591-592
MinutesLeft(attempt) ==
    Max(1, PyRound(attempt.end_time_at - attempt.submitted_at, SecondsPerMinute))

\* reject_step, line 580: the timer is inferred from the last submission
InfersTimer(timer, status) == timer = None /\ status = SUBMITTED

\* reject_step, lines 580-595: the timer_minutes handed to update_step
RejectTimer(n, timer, status) ==
    IF InfersTimer(timer, status)
    THEN MinutesLeft(attempts[n][GetLastSubmittedAttempt(n)])
    ELSE timer

\* reject_step: its checks and what update_step's flush answers; timer_minutes
\* is NOT NULL (models.py:57), so a None timer fails the UPDATE
RejectCheck(n, timer, status) ==
    IF ReviewCheck(status) # "OK" THEN ReviewCheck(status)
    ELSE IF InfersTimer(timer, status) /\ GetLastSubmittedAttempt(n) = 0 THEN "Conflict"
    ELSE IF ~InfersTimer(timer, status) /\ timer = None THEN "IntegrityError"
    ELSE "OK"

\* reject_step (the router lets only mentors call it)
RejectStep(pid, n, timer) ==
    /\ LET res == IF ~StepExists(pid, n) THEN "NotFound"
                  ELSE RejectCheck(n, timer, steps[n].status)
       IN  /\ IF res = "OK"
              THEN /\ steps' = [steps EXCEPT
                                  ![n].timer_minutes = RejectTimer(n, timer, steps[n].status),
                                  ![n].status = NOT_STARTED]
                   /\ project' = SetNewSubmission(project, FALSE)
              ELSE UNCHANGED <<steps, project>>
           /\ last' = Response("reject", n, res, 0)
    /\ UNCHANGED <<now, attempts, stepFiles, comments, storage, nextId, inflight>>

(* ------------------------- comments sub-ledger ------------------------- *)
\* get_step_or_404 with user passed (lines 339-357): a participant has to be
\* a member of the team of the step's project
GetStepOr404(pid, n, user) ==
    IF ~StepExists(pid, n) THEN "NotFound"
    ELSE IF ~user.is_mentor /\ project.team = None THEN "Forbidden"
    ELSE IF ~user.is_mentor /\ user.team_id # project.team THEN "Forbidden"
    ELSE "OK"

\* get_comments
GetComments(pid, n, user) ==
    /\ last' = Response("get_comments", n, GetStepOr404(pid, n, user), 0)
    /\ UNCHANGED <<now, dbVars, storage, inflight>>

\* create_comment without the check of the step's status
CreateCommentCheckNoStatus(pid, n, user) ==
    IF GetStepOr404(pid, n, user) # "OK" THEN GetStepOr404(pid, n, user) ELSE "OK"

\* create_comment, lines 638-643
CreateCommentCheck(pid, n, user) ==
    IF GetStepOr404(pid, n, user) # "OK" THEN GetStepOr404(pid, n, user)
    ELSE IF steps[n].status = NOT_STARTED THEN "Conflict"
    ELSE "OK"

\* create_comment.  The files are uploaded before the try block (644-652);
\* fault names the database call of the try block that raises.
CreateComment(pid, n, user, files, fault) ==
    LET chk == CreateCommentCheck(pid, n, user)
        up == IF files # <<>>
              THEN UploadFiles(files, n, CommentFileLimit, TRUE, storage)
              ELSE [res |-> "OK", store |-> storage, written |-> <<>>]
        res == IF chk # "OK" THEN chk
               ELSE IF up.res # "OK" THEN up.res
               ELSE IF fault = "create_comment" THEN "DBError"
               ELSE IF fault = "create_comment_files" /\ files # <<>> THEN "DBError"
               ELSE "OK"
    IN  /\ (chk # "OK" \/ up.res # "OK") => fault = "none"
        /\ res = "OK" => nextId.comment <= MaxComments
        /\ storage' = IF chk # "OK" THEN storage
                      ELSE IF up.res # "OK" THEN up.store
                      ELSE IF res # "OK" THEN DeleteWritten(up.store, up.written)
                      ELSE up.store
        /\ IF res = "OK"
           THEN /\ comments' = comments \cup
                       {[id |-> nextId.comment, step |-> n, user_id |-> user.id,
                         files |-> Range(up.written)]}
                /\ nextId' = [nextId EXCEPT !.comment = @ + 1]
           ELSE UNCHANGED <<comments, nextId>>
        /\ last' = Response("create_comment", n, res,
                            IF chk = "OK" THEN Len(up.written) ELSE 0)
        /\ UNCHANGED <<now, project, steps, attempts, stepFiles, inflight>>

\* delete_comment without the comparison of the author with the caller
DeleteCommentCheckAnyone(pid, n, user, comment_id) ==
    IF ~StepExists(pid, n) THEN "NotFound"
    ELSE IF ~\E c \in comments : c.id = comment_id THEN "NotFound"
    ELSE "OK"

\* delete_comment: the comment is looked up by its id alone
DeleteCommentCheck(pid, n, user, comment_id) ==
    IF ~StepExists(pid, n) THEN "NotFound"
    ELSE IF ~\E c \in comments : c.id = comment_id THEN "NotFound"
    ELSE IF (CHOOSE c \in comments : c.id = comment_id).user_id # user.id /\ ~user.is_mentor
    THEN "Forbidden"
    ELSE "OK"

DeleteComment(pid, n, user, comment_id) ==
    LET res == DeleteCommentCheck(pid, n, user, comment_id)
    IN  /\ IF res = "OK"
           THEN /\ storage' = storage \ (CHOOSE c \in comments : c.id = comment_id).files
                /\ comments' = {c \in comments : c.id # comment_id}
           ELSE UNCHANGED <<storage, comments>>
        /\ last' = Response("delete_comment", n, res, 0)
        /\ UNCHANGED <<now, project, steps, attempts, stepFiles, nextId, inflight>>

(* --------------------------- the environment --------------------------- *)
\* the clock advances by d seconds
Tick(d) ==
    /\ now + d <= MaxMinutes * SecondsPerMinute
    /\ now' = now + d
    /\ last' = Response("tick", 1, "OK", 0)
    /\ UNCHANGED <<dbVars, storage, inflight>>

(* ---------------- the workflow, requests one after another -------------- *)
\* every step of the project, submissions without files, the clock before
\* and after every deadline
Next ==
    \/ \E n \in Steps, t \in TeamIds : StartStep(1, n, t)
    \/ \E n \in Steps, t \in TimerValues : SetStepTimer(1, n, t)
    \/ \E n \in Steps, t \in TeamIds, x \in Texts :
          SubmitStep(1, n, t, x, <<>>, {}, 0, "none")
    \/ \E n \in Steps, sc \in ScoreValues : AcceptStep(1, n, sc)
    \/ \E n \in Steps, t \in TimerValues \cup {None} : RejectStep(1, n, t)
    \/ Tick(MaxMinutes * SecondsPerMinute)

Spec == Init /\ [][Next]_vars

(* ------------- the attempt clock: step 1 on a half-minute clock --------- *)
\* requests for step 1 of the project and of a project that does not exist
NextClock ==
    \/ \E pid \in RequestedProjectIds, t \in TeamIds : StartStep(pid, 1, t)
    \/ \E pid \in RequestedProjectIds, t \in ClockTimerValues : SetStepTimer(pid, 1, t)
    \/ \E pid \in RequestedProjectIds, t \in TeamIds, x \in Texts, e \in ElapsedValues :
          SubmitStep(pid, 1, t, x, <<>>, {}, e, "none")
    \/ \E pid \in RequestedProjectIds, sc \in ScoreValues : AcceptStep(pid, 1, sc)
    \/ \E pid \in RequestedProjectIds, t \in ClockTimerValues \cup {None} :
          RejectStep(pid, 1, t)
    \/ Tick(HalfMinute)

SpecClock == Init /\ [][NextClock]_vars

(* ---------- submissions with files and database faults, step 1 ---------- *)
NextLedger ==
    \/ StartStep(1, 1, 1)
    \/ \E t \in TimerValues : SetStepTimer(1, 1, t)
    \/ \E t \in TeamIds, x \in Texts, fs \in FileLists, rm \in RemoveFileIds,
             f \in SubmitFaults :
          SubmitStep(1, 1, t, x, fs, rm, 0, f)
    \/ \E sc \in ScoreValues : AcceptStep(1, 1, sc)
    \/ \E t \in TimerValues \cup {None} : RejectStep(1, 1, t)
    \/ Tick(MaxMinutes * SecondsPerMinute)

SpecLedger == Init /\ [][NextLedger]_vars

(* ------------------- comments on step 1 in every status ----------------- *)
NextComments ==
    \/ StartStep(1, 1, 1)
    \/ \E t \in TimerValues : SetStepTimer(1, 1, t)
    \/ \E x \in Texts : SubmitStep(1, 1, 1, x, <<>>, {}, 0, "none")
    \/ AcceptStep(1, 1, MaxScore)
    \/ \E t \in TimerValues : RejectStep(1, 1, t)
    \/ \E pid \in RequestedProjectIds, u \in Users : GetComments(pid, 1, u)
    \/ \E u \in Users, fs \in CommentFileLists, f \in CommentFaults :
          CreateComment(1, 1, u, fs, f)
    \/ \E pid \in RequestedProjectIds, u \in Users, c \in 1..MaxComments :
          DeleteComment(pid, 1, u, c)
    \/ Tick(MaxMinutes * SecondsPerMinute)

SpecComments == Init /\ [][NextComments]_vars

(* ------------------ requests that may overlap, step 1 ------------------- *)
\* start_step up to line 383: the request reads the step and passes or fails
\* its checks; a request that passes holds what it read until it writes
BeginStart(w, n, user_team_id) ==
    /\ inflight[w] = Idle
    /\ IF StartStepCheck(1, n, user_team_id) = "OK"
       THEN /\ inflight' = [inflight EXCEPT ![w] =
                              [op |-> "start", step |-> n,
                               timer_minutes |-> steps[n].timer_minutes]]
            /\ UNCHANGED last
       ELSE /\ last' = Response("start", n, StartStepCheck(1, n, user_team_id), 0)
            /\ UNCHANGED inflight
    /\ UNCHANGED <<now, dbVars, storage>>

\* start_step from line 385: the INSERT of the attempt and the UPDATE of the
\* status, committed.  Nothing in the schema (models.py:73-91) refuses a
\* second row without submitted_at, and the UPDATE does not depend on the
\* status another request has committed in between.
CommitStart(w) ==
    /\ inflight[w] # Idle
    /\ inflight[w].op = "start"
    /\ AttemptRows < MaxAttempts
    /\ StartStepWrite(inflight[w].step, inflight[w].timer_minutes)
    /\ inflight' = [inflight EXCEPT ![w] = Idle]
    /\ last' = Response("start", inflight[w].step, "OK", 0)
    /\ UNCHANGED <<now, project, stepFiles, comments, storage, nextId>>

\* set_step_timer up to line 419: the request has read the step
BeginSetTimer(w, n, timer) ==
    /\ inflight[w] = Idle
    /\ inflight' = [inflight EXCEPT ![w] =
                       [op |-> "set_timer", step |-> n, timer |-> timer,
                        status |-> steps[n].status]]
    /\ UNCHANGED <<now, dbVars, storage, last>>

\* set_step_timer from line 421, with the status the request read before
FinishSetTimer(w) ==
    /\ inflight[w] # Idle
    /\ inflight[w].op = "set_timer"
    /\ SetStepTimerWrite(inflight[w].step, inflight[w].timer, inflight[w].status)
    /\ inflight' = [inflight EXCEPT ![w] = Idle]
    /\ last' = Response("set_timer", inflight[w].step, "OK", 0)
    /\ UNCHANGED <<now, project, stepFiles, comments, storage, nextId>>

\* submit_step up to line 492: the request has read the clock, the step and
\* its open attempt and has passed its checks; the status it is going to
\* write comes from the end_time_at it read.  No await separates the read of
\* the attempt from the test of the deadline.
BeginSubmit(w, n, user_team_id, text) ==
    /\ inflight[w] = Idle
    /\ LET chk == SubmitStepCheck(1, n, user_team_id, {})
       IN  IF chk = "OK"
           THEN /\ \E i \in GetOpenAttempt(n) :
                      inflight' = [inflight EXCEPT ![w] =
                                     [op |-> "submit", step |-> n, text |-> text,
                                      attempt |-> i, submitted_at |-> now,
                                      status |-> SubmitStatus(now, attempts[n][i])]]
                /\ UNCHANGED last
           ELSE /\ last' = Response("submit", n, chk, 0)
                /\ UNCHANGED inflight
    /\ UNCHANGED <<now, dbVars, storage>>

\* submit_step from line 494, without files: the UPDATE of the attempt row
\* sets submitted_at, the UPDATE of the step row sets text and status, the
\* project gets its flag, and the commit; every UPDATE names its row by the
\* primary key and the columns the request changed.
FinishSubmit(w) ==
    /\ inflight[w] # Idle
    /\ inflight[w].op = "submit"
    /\ LET r == inflight[w]
       IN  /\ attempts' = [attempts EXCEPT ![r.step][r.attempt].submitted_at = r.submitted_at]
           /\ steps' = [steps EXCEPT ![r.step].text = r.text, ![r.step].status = r.status]
           /\ project' = SetNewSubmission(project, TRUE)
           /\ last' = Response("submit", r.step, "OK", 0)
    /\ inflight' = [inflight EXCEPT ![w] = Idle]
    /\ UNCHANGED <<now, stepFiles, comments, storage, nextId>>

\* accept_step up to line 538: the request has read the step and passed the
\* check of its status
BeginAccept(w, n, score) ==
    /\ inflight[w] = Idle
    /\ IF ReviewCheck(steps[n].status) = "OK"
       THEN /\ inflight' = [inflight EXCEPT ![w] =
                              [op |-> "accept", step |-> n, score |-> score]]
            /\ UNCHANGED last
       ELSE /\ last' = Response("accept", n, ReviewCheck(steps[n].status), 0)
            /\ UNCHANGED inflight
    /\ UNCHANGED <<now, dbVars, storage>>

\* accept_step from line 540: the UPDATE of score and status by primary key,
\* the project's flag, and the commit
FinishAccept(w) ==
    /\ inflight[w] # Idle
    /\ inflight[w].op = "accept"
    /\ LET r == inflight[w]
       IN  /\ steps' = [steps EXCEPT ![r.step].score = r.score, ![r.step].status = ACCEPTED]
           /\ project' = SetNewSubmission(project, FALSE)
           /\ last' = Response("accept", r.step, "OK", 0)
    /\ inflight' = [inflight EXCEPT ![w] = Idle]
    /\ UNCHANGED <<now, attempts, stepFiles, comments, storage, nextId>>

\* reject_step up to line 597: the request has read the step, passed the
\* check of its status and settled the timer it is going to write
BeginReject(w, n, timer) ==
    /\ inflight[w] = Idle
    /\ LET chk == RejectCheck(n, timer, steps[n].status)
       IN  IF chk = "OK"
           THEN /\ inflight' = [inflight EXCEPT ![w] =
                                  [op |-> "reject", step |-> n,
                                   timer_minutes |-> RejectTimer(n, timer, steps[n].status)]]
                /\ UNCHANGED last
           ELSE /\ last' = Response("reject", n, chk, 0)
                /\ UNCHANGED inflight
    /\ UNCHANGED <<now, dbVars, storage>>

\* reject_step from line 599: the UPDATE of timer_minutes and status by
\* primary key, the project's flag, and the commit
FinishReject(w) ==
    /\ inflight[w] # Idle
    /\ inflight[w].op = "reject"
    /\ LET r == inflight[w]
       IN  /\ steps' = [steps EXCEPT ![r.step].timer_minutes = r.timer_minutes,
                                     ![r.step].status = NOT_STARTED]
           /\ project' = SetNewSubmission(project, FALSE)
           /\ last' = Response("reject", r.step, "OK", 0)
    /\ inflight' = [inflight EXCEPT ![w] = Idle]
    /\ UNCHANGED <<now, attempts, stepFiles, comments, storage, nextId>>

NextConc ==
    \/ \E w \in Workers, t \in TeamIds : BeginStart(w, 1, t)
    \/ \E w \in Workers : CommitStart(w)
    \/ \E w \in Workers, t \in TimerValues : BeginSetTimer(w, 1, t)
    \/ \E w \in Workers : FinishSetTimer(w)
    \/ \E w \in Workers, x \in Texts : BeginSubmit(w, 1, 1, x)
    \/ \E w \in Workers : FinishSubmit(w)
    \/ \E w \in Workers : BeginAccept(w, 1, MaxScore)
    \/ \E w \in Workers : FinishAccept(w)
    \/ \E w \in Workers, t \in TimerValues : BeginReject(w, 1, t)
    \/ \E w \in Workers : FinishReject(w)
    \/ \E t \in TimerValues : SetStepTimer(1, 1, t)
    \/ \E x \in Texts : SubmitStep(1, 1, 1, x, <<>>, {}, 0, "none")
    \/ \E sc \in ScoreValues : AcceptStep(1, 1, sc)
    \/ \E t \in TimerValues \cup {None} : RejectStep(1, 1, t)
    \/ Tick(MaxMinutes * SecondsPerMinute)

SpecConc == Init /\ [][NextConc]_vars

(* ============================ properties =============================== *)
\* num / den rounded to the nearest integer, a tie going away from zero
HalfAwayRound(num, den) ==
    LET q == num \div den
        r == num % den
    IN  IF num >= 0 THEN (IF 2 * r >= den THEN q + 1 ELSE q)
        ELSE (IF 2 * r > den THEN q + 1 ELSE q)

\* the number of attempt rows of step n without submitted_at
OpenCount(att, n) == Cardinality({i \in 1..Len(att[n]) : att[n][i].submitted_at = None})

\* C1: for every step number n > 1, a start of step n while step n-1 is not
\* ACCEPTED is answered Conflict and creates no attempt, whoever asks; a start
\* of step n by the project's team once step n-1 is ACCEPTED and step n is
\* NOT_STARTED succeeds and creates the attempt.
C1_Sequencing ==
    [][\A n \in 2..NumSteps :
          /\ (last'.op = "start" /\ last'.step = n /\ steps[n - 1].status # ACCEPTED)
                => (last'.res = "Conflict" /\ attempts' = attempts /\ steps' = steps)
          /\ (last'.op = "start" /\ last'.step = n /\ steps[n - 1].status = ACCEPTED
                  /\ steps[n].status = NOT_STARTED /\ StartStep(1, n, project.team))
                => (last'.res = "OK" /\ Len(attempts'[n]) = Len(attempts[n]) + 1)]_vars

\* start of step 2 was refused while step 1 waits for its review
C1_Witness ==
    /\ last.op = "start" /\ last.step = 2 /\ last.res = "Conflict"
    /\ steps[1].status = SUBMITTED

\* C2: a start that succeeds leaves the step IN_PROGRESS with exactly one
\* attempt without submitted_at; any start of a step that is IN_PROGRESS fails
\* and adds no attempt, and the project's own team is answered Conflict.
C2_SingleOpenAttempt ==
    [][\A n \in Steps :
          /\ (last'.op = "start" /\ last'.step = n /\ last'.res = "OK")
                => (steps'[n].status = IN_PROGRESS /\ OpenCount(attempts', n) = 1)
          /\ (last'.op = "start" /\ last'.step = n /\ steps[n].status = IN_PROGRESS)
                => (/\ last'.res # "OK"
                    /\ attempts' = attempts
                    /\ StartStep(1, n, project.team) => last'.res = "Conflict")]_vars

\* a second start of the step in progress was refused, the open attempt stays
C2_Witness ==
    /\ last.op = "start" /\ last.res = "Conflict"
    /\ steps[last.step].status = IN_PROGRESS
    /\ OpenCount(attempts, last.step) = 1

\* C3: no step ever has more than one attempt without submitted_at, also
\* when two start requests for it overlap.
C3_AtMostOneOpenAttempt ==
    \A n \in Steps : OpenCount(attempts, n) <= 1

\* C4: after a successful submit the status is TIME_EXCEEDED exactly when the
\* stored submitted_at of the submitted attempt is later than its end_time_at.
C4_StatusFromStoredTimes ==
    (last.op = "submit" /\ last.res = "OK")
        => LET a == attempts[last.step][GetLastSubmittedAttempt(last.step)]
           IN  steps[last.step].status =
                  IF a.submitted_at > a.end_time_at THEN TIME_EXCEEDED ELSE SUBMITTED

\* C5: a reject of a SUBMITTED step without a timer sets timer_minutes to
\* max(1, r), r being end_time_at - submitted_at of the last submitted attempt
\* in seconds over 60, rounded half away from zero.
C5_RejectTimerHalfAway ==
    [][\A n \in Steps :
          (RejectStep(1, n, None) /\ steps[n].status = SUBMITTED /\ last'.res = "OK")
             => LET a == attempts[n][GetLastSubmittedAttempt(n)]
                IN  steps'[n].timer_minutes =
                       Max(1, HalfAwayRound(a.end_time_at - a.submitted_at, SecondsPerMinute))]_vars

\* C6: a reject without a timer of a TIME_EXCEEDED step is answered Conflict
\* and changes neither the step nor project.new_submission.
C6_RejectExceededNeedsTimer ==
    [][\A n \in Steps :
          (RejectStep(1, n, None) /\ steps[n].status = TIME_EXCEEDED)
             => (last'.res = "Conflict" /\ steps' = steps /\ project' = project)]_vars

\* C7: once a step is ACCEPTED it stays ACCEPTED with its score; accept and
\* reject on it are answered Conflict, start and submit on it fail (Conflict
\* for the project's own team); the accept that succeeds stores its score.
C7_AcceptedIsAbsorbing ==
    [][\A n \in Steps :
          /\ steps[n].status = ACCEPTED
                => /\ steps'[n].status = ACCEPTED
                   /\ steps'[n].score = steps[n].score
                   /\ (last'.op \in {"accept", "reject"} /\ last'.step = n)
                         => last'.res = "Conflict"
                   /\ (last'.op \in {"start", "submit"} /\ last'.step = n)
                         => last'.res \in {"Conflict", "Forbidden"}
                   /\ (last'.op = "start" /\ last'.step = n
                          /\ StartStep(1, n, project.team))
                         => last'.res = "Conflict"
                   /\ (last'.op = "submit" /\ last'.step = n
                          /\ \E x \in Texts : SubmitStep(1, n, project.team, x, <<>>, {}, 0, "none"))
                         => last'.res = "Conflict"
          /\ (last'.op = "accept" /\ last'.step = n /\ last'.res = "OK")
                => (steps'[n].status = ACCEPTED /\ steps'[n].score \in ScoreValues
                      /\ AcceptStep(1, n, steps'[n].score))]_vars

\* a reject of an accepted step was refused
C7_Witness ==
    /\ last.op = "reject" /\ last.res = "Conflict"
    /\ steps[last.step].status = ACCEPTED
    /\ steps[last.step].score \in ScoreValues

\* C8: a submit that fails leaves no step-file row behind and none of the
\* files it wrote: every path in the storage was there before, the step-file
\* rows are the ones from before, and the only files missing are files of
\* step-file rows (the ones the request asked to remove).
C8_FailedSubmitCleansUp ==
    [][(last'.op = "submit" /\ last'.res # "OK")
          => /\ storage' \subseteq storage
             /\ (storage \ storage') \subseteq {r.path : r \in stepFiles}
             /\ stepFiles' = stepFiles
             /\ nextId' = nextId]_vars

\* a submit failed at its commit after writing two files, none of them is left
C8_Witness ==
    /\ last.op = "submit" /\ last.res = "DBError" /\ last.written = 2
    /\ storage = {} /\ stepFiles = {}

\* C9: create_comment by a mentor or a member of the project's team is
\* answered Conflict and creates nothing while the step is NOT_STARTED, and
\* succeeds in every other status when its files upload and the database
\* works.
Authorized(u) == u.is_mentor \/ u.team_id = project.team

C9_CommentGating ==
    [][(last'.op = "create_comment")
          => \A u \in {v \in Users : Authorized(v)}, fs \in CommentFileLists :
                CreateComment(1, 1, u, fs, "none")
                   => IF steps[1].status = NOT_STARTED
                      THEN last'.res = "Conflict" /\ comments' = comments
                              /\ storage' = storage
                      ELSE UploadFiles(fs, 1, CommentFileLimit, TRUE, storage).res = "OK"
                              => (last'.res = "OK"
                                    /\ Cardinality(comments') = Cardinality(comments) + 1)]_vars

\* a comment was refused on a step that a reject returned to NOT_STARTED
C9_Witness ==
    /\ last.op = "create_comment" /\ last.res = "Conflict"
    /\ steps[1].status = NOT_STARTED /\ Len(attempts[1]) > 0

\* C10: new_submission is TRUE after a successful submit, FALSE after a
\* successful accept or reject, and unchanged by a failed one of the three.
C10_NewSubmissionFlag ==
    [][/\ (last'.op = "submit" /\ last'.res = "OK") => project'.new_submission
       /\ (last'.op \in {"accept", "reject"} /\ last'.res = "OK") => ~project'.new_submission
       /\ (last'.op \in {"submit", "accept", "reject"} /\ last'.res # "OK")
             => project'.new_submission = project.new_submission]_vars

\* a submit failed at its commit while the flag was down, and it is still down
C10_Witness ==
    /\ last.op = "submit" /\ last.res = "DBError"
    /\ ~project.new_submission /\ steps[1].status = IN_PROGRESS

\* C11: a submit that fails, at whichever of its checks or calls, leaves the
\* step rows (status, text), the attempt rows (submitted_at), the step-file
\* rows and the project row (new_submission) exactly as they were.
C11_FailedSubmitPersistsNothing ==
    [][(last'.op = "submit" /\ last'.res # "OK")
          => /\ steps' = steps
             /\ attempts' = attempts
             /\ stepFiles' = stepFiles
             /\ project' = project]_vars

\* a submit of a step in progress failed inside its try block; the step is
\* still in progress, without text, its attempt still open
C11_Witness ==
    /\ last.op = "submit" /\ last.res = "UnboundLocalError"
    /\ steps[1].status = IN_PROGRESS /\ steps[1].text = NoText
    /\ OpenCount(attempts, 1) = 1
    /\ ~project.new_submission

\* C12: a set_timer that is answered successfully leaves the timer it was
\* given in the step row, also when its request for a step in progress
\* overlaps another request and finds no open attempt.
C12_SetTimerAlwaysWrites ==
    [][\A w \in Workers :
          (inflight[w] # Idle /\ inflight[w].op = "set_timer" /\ FinishSetTimer(w))
             => steps'[inflight[w].step].timer_minutes = inflight[w].timer]_vars

\* the edges of the step workflow, each with the operation that takes it
StatusEdges ==
    {<<NOT_STARTED, IN_PROGRESS, "start">>,
     <<IN_PROGRESS, SUBMITTED, "submit">>,
     <<IN_PROGRESS, TIME_EXCEEDED, "submit">>,
     <<SUBMITTED, ACCEPTED, "accept">>,
     <<TIME_EXCEEDED, ACCEPTED, "accept">>,
     <<SUBMITTED, NOT_STARTED, "reject">>,
     <<TIME_EXCEEDED, NOT_STARTED, "reject">>}

\* C13: with requests served one after another, a step's status changes only
\* along the edges of the workflow and only by a successful request of the
\* operation of that edge; set_timer, get_comments, create_comment and
\* delete_comment never change a status.
C13_StatusEdgesOnly ==
    [][\A n \in Steps :
          steps'[n].status # steps[n].status
             => /\ <<steps[n].status, steps'[n].status, last'.op>> \in StatusEdges
                /\ last'.step = n
                /\ last'.res = "OK"]_vars

\* a second attempt was submitted late: the step went through reject, start
\* and submit again
C13_Witness ==
    /\ last.op = "submit" /\ last.res = "OK"
    /\ steps[1].status = TIME_EXCEEDED
    /\ Len(attempts[1]) = 2

RECURSIVE SumScores(_)
\* the sum of the scores of steps 1..n
SumScores(n) == IF n = 0 THEN 0 ELSE steps[n].score + SumScores(n - 1)

\* C14: in every reachable state the score of the project row is the sum of
\* the scores of the project's steps.
C14_ProjectScoreIsSum ==
    project.score = SumScores(NumSteps)

\* C15: with requests served one after another, new_submission of the
\* project is TRUE exactly when one of its steps is SUBMITTED or TIME_EXCEEDED.
C15_FlagMeansUnreviewed ==
    project.new_submission <=> \E n \in Steps : steps[n].status \in {SUBMITTED, TIME_EXCEEDED}

\* step 2 waits for its review after step 1 was accepted, and the flag is up
C15_Witness ==
    /\ project.new_submission
    /\ steps[1].status = ACCEPTED
    /\ steps[2].status \in {SUBMITTED, TIME_EXCEEDED}

\* a team that is not the team of the project
OtherTeam == 2

\* C16 as stated: a start by the captain of another team is answered Forbidden
\* and creates no attempt, for every step and whatever the statuses of the
\* step and of the step before it.
C16_WrongTeamAlwaysForbidden ==
    [][\A n \in Steps :
          (last'.op = "start" /\ last'.step = n /\ project.team \notin {None, OtherTeam}
              /\ StartStep(1, n, OtherTeam))
             => (last'.res = "Forbidden" /\ attempts' = attempts)]_vars

\* C16, amended: a start by the captain of another team creates no attempt and
\* changes no step; it is answered Conflict when the step before is not
\* ACCEPTED, and Forbidden otherwise, whatever the status of the step itself.
C16_WrongTeamRefused ==
    [][\A n \in Steps :
          (last'.op = "start" /\ last'.step = n /\ project.team \notin {None, OtherTeam}
              /\ StartStep(1, n, OtherTeam))
             => /\ attempts' = attempts
                /\ steps' = steps
                /\ last'.res = IF n > 1 /\ steps[n - 1].status # ACCEPTED
                               THEN "Conflict" ELSE "Forbidden"]_vars

\* another team's start of step 2 was answered Forbidden while step 2 was in
\* progress
C16_Witness ==
    /\ last.op = "start" /\ last.step = 2 /\ last.res = "Forbidden"
    /\ steps[2].status = IN_PROGRESS

\* the kinds a failure is reported as
ErrorKinds == {"NotFound", "Forbidden", "Conflict", "BadRequest"}

\* C17: every request is answered successfully or with one of NotFound,
\* Forbidden, Conflict and BadRequest, also a submit for a project without a
\* team and a submit that fails before it has uploaded a file.
C17_FailuresHaveAKind ==
    last.res \in ErrorKinds \cup {"OK"}

\* C18: get_comments and create_comment let a mentor through on every step,
\* answer Forbidden to a participant who is not in the team of the project,
\* and NotFound to a participant when the project has no team; a request
\* refused this way creates no comment.
C18_CommentAuthorization ==
    [][\A u \in Users :
          (\/ (last'.op = "get_comments" /\ GetComments(1, 1, u))
           \/ (last'.op = "create_comment"
                 /\ \E fs \in CommentFileLists, f \in CommentFaults :
                       CreateComment(1, 1, u, fs, f)))
             => IF u.is_mentor THEN last'.res \notin {"Forbidden", "NotFound"}
                ELSE IF project.team = None
                THEN last'.res = "NotFound" /\ comments' = comments
                ELSE IF u.team_id # project.team
                THEN last'.res = "Forbidden" /\ comments' = comments
                ELSE TRUE]_vars

\* C19: a comment row goes only by a delete_comment of its author or of a
\* mentor, which also removes its files from the storage; a delete_comment of
\* anyone else is answered Forbidden and leaves the row and the files.
C19_DeleteByAuthorOrMentor ==
    [][/\ comments' # comments /\ comments' \subseteq comments
          => (last'.op = "delete_comment" /\ last'.res = "OK")
       /\ \A u \in Users, c \in comments :
             (last'.op = "delete_comment" /\ DeleteComment(1, 1, u, c.id))
                => IF c.user_id = u.id \/ u.is_mentor
                   THEN /\ last'.res = "OK"
                        /\ comments' = comments \ {c}
                        /\ storage' = storage \ c.files
                   ELSE /\ last'.res = "Forbidden"
                        /\ comments' = comments
                        /\ storage' = storage]_vars

\* a delete_comment was answered Forbidden; the comment and its file are there
C19_Witness ==
    /\ last.op = "delete_comment" /\ last.res = "Forbidden"
    /\ \E c \in comments : c.files # {} /\ c.files \subseteq storage

\* C20: a status becomes TIME_EXCEEDED only by a successful submit of that
\* step, and a step that is IN_PROGRESS stays IN_PROGRESS through every clock
\* tick and every request other than a successful submit of it, however far
\* the clock is past the end_time_at of its open attempt.
C20_ExpiryIsLazy ==
    [][\A n \in Steps :
          LET submitted == last'.op = "submit" /\ last'.step = n /\ last'.res = "OK"
          IN  /\ (steps'[n].status = TIME_EXCEEDED /\ steps[n].status # TIME_EXCEEDED)
                    => submitted
              /\ (steps[n].status = IN_PROGRESS /\ ~submitted)
                    => steps'[n].status = IN_PROGRESS]_vars

\* the deadline of the open attempt is past, a set_timer was served after it,
\* and the step is still in progress
C20_Witness ==
    \E n \in Steps :
       /\ steps[n].status = IN_PROGRESS
       /\ last.op = "set_timer" /\ last.step = n /\ last.res = "OK"
       /\ \E i \in OpenAttemptIndexes(n) : attempts[n][i].end_time_at < now

\* C21: a set_timer served for a step in progress moves the end_time_at of
\* its open attempt to started_at plus the new minutes and changes nothing
\* else of any attempt; the submit that follows makes the step TIME_EXCEEDED
\* exactly when the clock is past started_at plus the timer of the step.
C21_TimerMovesDeadline ==
    [][\A n \in Steps :
          /\ (last'.op = "set_timer" /\ last'.step = n /\ last'.res = "OK"
                 /\ steps[n].status = IN_PROGRESS)
                => \E t \in TimerValues :
                      /\ SetStepTimer(1, n, t)
                      /\ Len(attempts'[n]) = Len(attempts[n])
                      /\ \A i \in 1..Len(attempts[n]) :
                            attempts'[n][i] =
                               IF i \in OpenAttemptIndexes(n)
                               THEN [attempts[n][i] EXCEPT !.end_time_at =
                                       attempts[n][i].started_at + SecondsPerMinute * t]
                               ELSE attempts[n][i]
          /\ (last'.op = "submit" /\ last'.step = n /\ last'.res = "OK")
                => \A i \in OpenAttemptIndexes(n) :
                      steps'[n].status =
                         IF now' > attempts[n][i].started_at
                                      + SecondsPerMinute * steps[n].timer_minutes
                         THEN TIME_EXCEEDED ELSE SUBMITTED]_vars

\* an attempt started with the default timer was submitted after the deadline
\* that a set_timer gave it
C21_Witness ==
    \E n \in Steps :
       /\ last.op = "submit" /\ last.step = n /\ last.res = "OK"
       /\ steps[n].status = TIME_EXCEEDED
       /\ steps[n].timer_minutes \in TimerValues
       /\ \E i \in 1..Len(attempts[n]) :
             /\ attempts[n][i].submitted_at = now
             /\ attempts[n][i].end_time_at =
                   attempts[n][i].started_at + SecondsPerMinute * steps[n].timer_minutes
             /\ attempts[n][i].end_time_at < now

\* C22: no request removes an attempt row; an attempt that has its
\* submitted_at never changes again; a successful start appends one open
\* attempt to the attempts the step had, which are all closed.
C22_AttemptsAreHistory ==
    [][\A n \in Steps :
          /\ Len(attempts'[n]) >= Len(attempts[n])
          /\ \A i \in 1..Len(attempts[n]) :
                attempts[n][i].submitted_at # None => attempts'[n][i] = attempts[n][i]
          /\ (last'.op = "start" /\ last'.step = n /\ last'.res = "OK")
                => /\ Len(attempts'[n]) = Len(attempts[n]) + 1
                   /\ \A i \in 1..Len(attempts[n]) : attempts'[n][i] = attempts[n][i]
                   /\ OpenAttemptIndexes(n) = {}
                   /\ attempts'[n][Len(attempts'[n])].submitted_at = None]_vars

\* a rejected step was started again: the closed attempt and the new one
C22_Witness ==
    \E n \in Steps :
       /\ last.op = "start" /\ last.step = n /\ last.res = "OK"
       /\ Len(attempts[n]) = 2
       /\ attempts[n][1].submitted_at # None
       /\ attempts[n][2].submitted_at = None

\* the steps that are not ACCEPTED, and the lowest of them
Unfinished == {n \in Steps : steps[n].status # ACCEPTED}
LowestUnfinished == CHOOSE n \in Unfinished : \A m \in Unfinished : n <= m

\* C23: while the project has a team and a step that is not ACCEPTED, the
\* checks of the request that takes the lowest such step one edge further
\* pass: start by the team's captain when it is NOT_STARTED (also after a
\* reject), submit by the captain when it is IN_PROGRESS, accept (and reject
\* with a timer) when it is SUBMITTED or TIME_EXCEEDED.
C23_NoDeadEnd ==
    (project.team # None /\ Unfinished # {})
       => LET n == LowestUnfinished
          IN  CASE steps[n].status = NOT_STARTED ->
                      StartStepCheck(1, n, project.team) = "OK"
                [] steps[n].status = IN_PROGRESS ->
                      SubmitStepCheck(1, n, project.team, {}) = "OK"
                [] OTHER ->
                      /\ ReviewCheck(steps[n].status) = "OK"
                      /\ \A t \in TimerValues : RejectCheck(n, t, steps[n].status) = "OK"

\* the project went through every step: the last accept left none unfinished
C23_Witness ==
    /\ project.team # None
    /\ Unfinished = {}
    /\ last.op = "accept" /\ last.res = "OK" /\ last.step = NumSteps

\* the steps a team is working on or a mentor has to review
Active == {n \in Steps : steps[n].status \in {IN_PROGRESS, SUBMITTED, TIME_EXCEEDED}}

\* C24: with requests one after another, a step that is not NOT_STARTED has
\* an ACCEPTED step before it; so at most one step is IN_PROGRESS, SUBMITTED
\* or TIME_EXCEEDED, every lower step is ACCEPTED and every higher step is
\* NOT_STARTED.
C24_OneActiveStep ==
    /\ \A n \in Steps \ {1} :
          steps[n].status # NOT_STARTED => steps[n - 1].status = ACCEPTED
    /\ Cardinality(Active) <= 1
    /\ \A n \in Active :
          /\ \A m \in Steps : m < n => steps[m].status = ACCEPTED
          /\ \A m \in Steps : m > n => steps[m].status = NOT_STARTED

\* a later step waits for its review behind an accepted one
C24_Witness ==
    \E n \in Steps \ {1} :
       /\ steps[n].status \in {SUBMITTED, TIME_EXCEEDED}
       /\ steps[n - 1].status = ACCEPTED
       /\ Active = {n}

\* C25: with requests one after another, a step is IN_PROGRESS exactly when
\* it has an attempt without submitted_at; in every other status all its
\* attempts have submitted_at, and no submit on an IN_PROGRESS step is
\* refused for want of an open attempt.
C25_InProgressIffOpenAttempt ==
    \A n \in Steps :
       /\ steps[n].status = IN_PROGRESS <=> OpenAttemptIndexes(n) # {}
       /\ steps[n].status # IN_PROGRESS
             => \A i \in 1..Len(attempts[n]) : attempts[n][i].submitted_at # None
       /\ (steps[n].status = IN_PROGRESS /\ project.team # None)
             => SubmitStepCheck(1, n, project.team, {}) = "OK"

\* a second submission of a step closed the step's second attempt
C25_Witness ==
    \E n \in Steps :
       /\ last.op = "submit" /\ last.step = n /\ last.res = "OK"
       /\ steps[n].status \in {SUBMITTED, TIME_EXCEEDED}
       /\ Len(attempts[n]) = 2
       /\ OpenAttemptIndexes(n) = {}

\* C26: with requests one after another, the open attempt of an IN_PROGRESS
\* step ends timer_minutes minutes after it started, timer_minutes being the
\* step's stored timer.
C26_DeadlineFollowsTimer ==
    \A n \in Steps :
       steps[n].status = IN_PROGRESS
          => \A i \in OpenAttemptIndexes(n) :
                attempts[n][i].end_time_at =
                   attempts[n][i].started_at + SecondsPerMinute * steps[n].timer_minutes

\* a mentor changed the timer of a step in progress after the clock moved
C26_Witness ==
    \E n \in Steps :
       /\ last.op = "set_timer" /\ last.step = n /\ last.res = "OK"
       /\ steps[n].status = IN_PROGRESS
       /\ steps[n].timer_minutes # DefaultTimerMinutes
       /\ \E i \in OpenAttemptIndexes(n) :
             /\ attempts[n][i].started_at < now
             /\ attempts[n][i].end_time_at =
                   attempts[n][i].started_at + SecondsPerMinute * steps[n].timer_minutes

\* C30: with requests one after another, a step that is not ACCEPTED has
\* score 0, and only a successful accept of the step changes its score:
\* start, set_timer, submit and reject leave it as it is.
C30_ScoreOnlyWhenAccepted ==
    [][\A n \in Steps :
          /\ steps[n].status # ACCEPTED => steps[n].score = 0
          /\ steps'[n].status # ACCEPTED => steps'[n].score = 0
          /\ steps'[n].score # steps[n].score
                => /\ last'.op = "accept" /\ last'.step = n /\ last'.res = "OK"
                   /\ steps'[n].status = ACCEPTED]_vars

\* a step that was submitted, rejected and started again still has score 0
\* while another step carries the score of its accept
C30_Witness ==
    /\ steps[1].status = ACCEPTED /\ steps[1].score = MaxScore
    /\ steps[2].status = NOT_STARTED /\ steps[2].score = 0
    /\ last.op = "reject" /\ last.step = 2 /\ last.res = "OK"

\* C27: when an accept and a reject of the same step overlap, at most one
\* of them is answered with success: the reject does not commit on a step an
\* accept has committed in between, the accept does not commit on a step a
\* reject has taken back to NOT_STARTED in between, and a step in NOT_STARTED
\* has no score of an accept.
C27_OneReviewWins ==
    [][\A w \in Workers :
          (/\ inflight[w] # Idle
           /\ inflight[w].op \in {"accept", "reject"}
           /\ inflight'[w] = Idle)
             => LET n == inflight[w].step
                IN  /\ inflight[w].op = "reject" => steps[n].status # ACCEPTED
                    /\ inflight[w].op = "accept" => steps[n].status # NOT_STARTED
                    /\ steps'[n].status = NOT_STARTED => steps'[n].score = 0]_vars

\* C28: when a set_timer and a submit of the same step overlap, a step in
\* SUBMITTED or TIME_EXCEEDED is in TIME_EXCEEDED exactly when the stored
\* submitted_at of its last submitted attempt is later than that attempt's
\* stored end_time_at.
C28_StatusMatchesStoredDeadline ==
    \A n \in Steps :
       (steps[n].status \in {SUBMITTED, TIME_EXCEEDED} /\ GetLastSubmittedAttempt(n) # 0)
          => LET a == attempts[n][GetLastSubmittedAttempt(n)]
             IN  steps[n].status = TIME_EXCEEDED <=> a.submitted_at > a.end_time_at

\* C29: after a submit that failed, every step-file row in the database has
\* its file in the storage: a file named in file_ids_to_remove leaves the
\* filesystem only together with its row, in a submission that committed.
C29_FailedSubmitKeepsFiles ==
    (last.op = "submit" /\ last.res # "OK")
       => \A f \in stepFiles : f.path \in storage
====
